---- MODULE Spec2Model ----
(***************************************************************************)
(* PICOBOOT host client (picoboot-rs): the connection, its command         *)
(* transaction engine (PicobootConnection::cmd), the public operations     *)
(* built on it, construction and drop.  The USB transport (rusb) is the    *)
(* environment: every transfer returns an outcome chosen by the            *)
(* environment (error, or a transferred length).                           *)
(***************************************************************************)
EXTENDS Integers, Sequences, FiniteSets, TLC

\* ------------------------------------------------------------------------
\* Bounds of the model
\* ------------------------------------------------------------------------
\* number of public operation calls made on one connection
MaxCalls == 3
\* length of the non-empty payload / read size used as input
MaxLen == 2

\* ------------------------------------------------------------------------
\* Program constants (lib.rs, cmd.rs)
\* ------------------------------------------------------------------------
PICO_PAGE_SIZE == 256
PICO_SECTOR_SIZE == 4096
PICO_FLASH_START == 268435456
PICO_STACK_POINTER == 537141248
PICOBOOT_VID == 11914
PICOBOOT_PID_RP2040 == 3
PICOBOOT_PID_RP2350 == 15
PICOBOOT_MAGIC == 1126158603

\* PicobootCmdId discriminants
Id_Unknown == 0
Id_ExclusiveAccess == 1
Id_Reboot == 2
Id_FlashErase == 3
Id_Read == 132
Id_Write == 5
Id_ExitXip == 6
Id_EnterCmdXip == 7
Id_Exec == 8
Id_VectorizeFlash == 9
Id_Reboot2 == 10
Id_GetInfo == 139
Id_OtpRead == 140
Id_OtpWrite == 13

PicobootCmdId ==
  { Id_Unknown, Id_ExclusiveAccess, Id_Reboot, Id_FlashErase, Id_Read,
    Id_Write, Id_ExitXip, Id_EnterCmdXip, Id_Exec, Id_VectorizeFlash,
    Id_Reboot2, Id_GetInfo, Id_OtpRead, Id_OtpWrite }

\* ------------------------------------------------------------------------
\* Wire codec: bincode fixed-int little-endian encoding
\* ------------------------------------------------------------------------
Zeros(n) == [i \in 1..n |-> 0]

LE16(x) == << x % 256, (x \div 256) % 256 >>

LE32(x) ==
  << x % 256, (x \div 256) % 256, (x \div 65536) % 256, (x \div 16777216) % 256 >>

\* reading a little-endian u32 back from 4 bytes starting at byte offset off
RdLE32(b, off) ==
  b[off + 1] + 256 * b[off + 2] + 65536 * b[off + 3] + 16777216 * b[off + 4]

\* a u32 that may exceed the model checker's integers: its two 16-bit halves
U32(n) == [hi |-> n \div 65536, lo |-> n % 65536]

\* u32::MAX, 0xFFFFFFFF
U32_MAX == [hi |-> 65535, lo |-> 65535]

\* the four little-endian bytes of a u32 held in halves
U32_ser(t) == LE16(t.lo) \o LE16(t.hi)

\* reading a u32 in halves back from 4 bytes starting at byte offset off
U32_de(b, off) ==
  [hi |-> b[off + 3] + 256 * b[off + 4], lo |-> b[off + 1] + 256 * b[off + 2]]

\* a < b on u32
U32_lt(a, b) == a.hi < b.hi \/ (a.hi = b.hi /\ a.lo < b.lo)

\* (cmd_id as u8) & 0x80 != 0
HighBit(id) == (id \div 128) % 2 = 1

\* PicobootRangeCmd::ser
RangeCmd_ser(addr, size) == LE32(addr) \o LE32(size) \o Zeros(8)

\* PicobootRebootCmd::ser
RebootCmd_ser(rpc, sp, delay) == LE32(rpc) \o LE32(sp) \o LE32(delay) \o LE32(0)

\* PicobootReboot2Cmd::ser
Reboot2Cmd_ser(flags, delay, p0, p1) ==
  LE32(flags) \o LE32(delay) \o LE32(p0) \o LE32(p1)

\* PicobootCmd::new
PicobootCmd_new(cmd_id, cmd_size, transfer_len, args) ==
  [ magic |-> PICOBOOT_MAGIC, token |-> U32(0), cmd_id |-> cmd_id,
    cmd_size |-> cmd_size, unused |-> 0, transfer_len |-> transfer_len,
    args |-> args ]

\* PicobootCmd::set_token
set_token(c, token) == [c EXCEPT !.token = token]

\* PicobootCmd::get_transfer_len
get_transfer_len(c) == c.transfer_len

\* PicobootCmd::get_cmd_id (try_into().unwrap(): defined on the known ids)
get_cmd_id(c) == c.cmd_id

\* a faulty encoding that writes the args as a byte vector, behind a 64-bit
\* length
Serialize_prefixed(c) ==
  LE32(c.magic) \o U32_ser(c.token) \o << c.cmd_id, c.cmd_size >> \o LE16(c.unused)
    \o LE32(c.transfer_len) \o LE32(Len(c.args)) \o Zeros(4) \o c.args

\* bincode::serialize(&PicobootCmd): the fields in declaration order
Serialize(c) ==
  LE32(c.magic) \o U32_ser(c.token) \o << c.cmd_id, c.cmd_size >> \o LE16(c.unused)
    \o LE32(c.transfer_len) \o c.args

\* The builders of PicobootCmd
Cmd_exclusive_access(exclusive) ==
  PicobootCmd_new(Id_ExclusiveAccess, 1, 0, << exclusive >> \o Zeros(15))

Cmd_reboot(rpc, sp, delay) ==
  PicobootCmd_new(Id_Reboot, 12, 0, RebootCmd_ser(rpc, sp, delay))

Cmd_reboot2_normal(delay) ==
  PicobootCmd_new(Id_Reboot2, 16, 0, Reboot2Cmd_ser(0, delay, 0, 0))

Cmd_flash_erase(addr, size) ==
  PicobootCmd_new(Id_FlashErase, 8, 0, RangeCmd_ser(addr, size))

\* a faulty WRITE builder that announces one page whatever the size
Cmd_flash_write_page(addr, size) ==
  PicobootCmd_new(Id_Write, 8, PICO_PAGE_SIZE, RangeCmd_ser(addr, size))

Cmd_flash_write(addr, size) ==
  PicobootCmd_new(Id_Write, 8, size, RangeCmd_ser(addr, size))

Cmd_flash_read(addr, size) ==
  PicobootCmd_new(Id_Read, 8, size, RangeCmd_ser(addr, size))

Cmd_enter_xip == PicobootCmd_new(Id_EnterCmdXip, 0, 0, Zeros(16))

Cmd_exit_xip == PicobootCmd_new(Id_ExitXip, 0, 0, Zeros(16))

\* ------------------------------------------------------------------------
\* Results and transport outcomes
\* ------------------------------------------------------------------------
Ok(v) == [ok |-> TRUE, err |-> "none", val |-> v]

Err(e) == [ok |-> FALSE, err |-> e, val |-> << >>]

NoResult == [ok |-> FALSE, err |-> "no call yet", val |-> << >>]

\* what the device delivers when n bytes were read
DevData(n) == [i \in 1..n |-> 165]

\* outcome of one bulk transfer of n requested bytes, chosen by the transport:
\* an error (a timeout is an error of rusb), or a transferred length: all n
\* bytes, or one byte less
RusbErrors == { "Timeout", "Io" }

Xfers(n) ==
  { [err |-> TRUE, len |-> 0, why |-> w] : w \in RusbErrors }
    \cup { [err |-> FALSE, len |-> k, why |-> "none"] : k \in ({n, n - 1} \cap (0..n)) }

\* outcome of one call of the handle that only succeeds or fails
Outcomes == { "ok", "err" }

\* an entry of the log of transport operations of one public call
Entry(o, ep, req, data, check, x) ==
  [ op |-> o, ep |-> ep, req |-> req, data |-> data, check |-> check,
    err |-> x.err, len |-> x.len, why |-> x.why ]

\* ------------------------------------------------------------------------
\* State
\* ------------------------------------------------------------------------
VARIABLES
  life,               \* "none", "open", "ctor_err", "dropped", "panicked"
  target_id,          \* "Rp2040", "Rp2350" ("none" before construction)
  iface,              \* PicobootConnection.iface
  in_addr,            \* PicobootConnection.in_addr
  out_addr,           \* PicobootConnection.out_addr
  cmd_token,          \* PicobootConnection.cmd_token
  has_kernel_driver,  \* PicobootConnection.has_kernel_driver
  hlog,               \* calls made on the handle by new and drop, in order
  pc,                 \* position inside cmd: "idle", "status1", "data", "status2", "ack"
  op,                 \* the public operation of the current / last call
  cur,                \* the frame of the current / last transaction (token set)
  curbuf,             \* the buf argument of the current / last transaction
  res,                \* cmd's local `res`
  trace,              \* transport operations performed by the current / last call
  result,             \* what the last call returned
  sent,               \* tokens of the frames handed to bulk OUT, in order
  ncmd,               \* number of calls that reached cmd
  ncalls,             \* number of public calls made
  env                 \* the vidpid argument and the bus new is given, when fixed

vars ==
  << life, target_id, iface, in_addr, out_addr, cmd_token, has_kernel_driver,
     hlog, pc, op, cur, curbuf, res, trace, result, sent, ncmd, ncalls, env >>

conn == << life, target_id, iface, in_addr, out_addr, has_kernel_driver, hlog, env >>

NoCmd == PicobootCmd_new(Id_Unknown, 0, 0, Zeros(16))

\* no argument and no bus fixed: new takes any
NoEnv == [fixed |-> FALSE, vidpid |-> [some |-> FALSE, vid |-> 0, pid |-> 0], bus |-> << >>]

\* the state before construction
Fresh ==
  /\ life = "none"
  /\ target_id = "none"
  /\ iface = 0
  /\ in_addr = 0
  /\ out_addr = 0
  /\ cmd_token = U32(0)
  /\ has_kernel_driver = FALSE
  /\ hlog = << >>
  /\ pc = "idle"
  /\ op = "none"
  /\ cur = NoCmd
  /\ curbuf = << >>
  /\ res = << >>
  /\ trace = << >>
  /\ result = NoResult
  /\ sent = << >>
  /\ ncmd = 0
  /\ ncalls = 0

Init == Fresh /\ env = NoEnv

\* ------------------------------------------------------------------------
\* The USB bus seen by the constructor: devices and their descriptors
\* ------------------------------------------------------------------------
Ep(dir, tt, addr) == [dir |-> dir, tt |-> tt, addr |-> addr]

Alt(ifn, setting, cls, sub, pro, eps) ==
  [ ifn |-> ifn, setting |-> setting, cls |-> cls, sub |-> sub, pro |-> pro,
    eps |-> eps ]

\* a device's descriptors: a sequence of configurations, each a record
\* [number, interfaces], interfaces a sequence of sequences of alt-settings
\* the PICOBOOT layout: mass storage on interface 0, vendor interface 1
Desc_pico ==
  << [ number |-> 1,
       interfaces |->
         << << Alt(0, 0, 8, 6, 80, << Ep("In", "Bulk", 129), Ep("Out", "Bulk", 2) >>) >>,
            << Alt(1, 0, 255, 0, 0, << Ep("Out", "Bulk", 3), Ep("In", "Bulk", 132) >>) >> >> ] >>

\* vendor interface without a bulk IN endpoint
Desc_no_in ==
  << [ number |-> 1,
       interfaces |->
         << << Alt(0, 0, 255, 0, 0, << Ep("Out", "Bulk", 3), Ep("In", "Interrupt", 132) >>) >> >> ] >>

\* bulk IN and bulk OUT on two different vendor interfaces
Desc_split ==
  << [ number |-> 1,
       interfaces |->
         << << Alt(0, 0, 255, 0, 0, << Ep("In", "Bulk", 132) >>) >>,
            << Alt(1, 0, 255, 0, 0, << Ep("Out", "Bulk", 3) >>) >> >> ] >>

\* vendor interface whose alt-setting 0 has no endpoints and alt-setting 1 both
Desc_alt1 ==
  << [ number |-> 1,
       interfaces |->
         << << Alt(1, 0, 255, 0, 0, << >>),
               Alt(1, 1, 255, 0, 0, << Ep("Out", "Bulk", 3), Ep("In", "Bulk", 132) >>) >> >> ] >>

Descs == { Desc_pico, Desc_no_in, Desc_split }

Dev(vid, pid, desc, openable) ==
  [vid |-> vid, pid |-> pid, desc |-> desc, openable |-> openable]

\* a vendor / product pair that is neither well-known pair
OTHER_VID == PICOBOOT_VID + 1

OTHER_PID == PICOBOOT_PID_RP2350 + 1

\* the buses the constructor is run on (the list ctx.devices() returns)
Buses ==
  { << >> }
    \cup { << Dev(PICOBOOT_VID, PICOBOOT_PID_RP2040, d, TRUE) >> : d \in Descs }
    \cup { << Dev(PICOBOOT_VID, PICOBOOT_PID_RP2350, Desc_pico, TRUE) >>,
           << Dev(OTHER_VID, OTHER_PID, Desc_pico, TRUE) >>,
           << Dev(PICOBOOT_VID, PICOBOOT_PID_RP2350, Desc_pico, TRUE),
              Dev(PICOBOOT_VID, PICOBOOT_PID_RP2040, Desc_pico, TRUE) >>,
           << Dev(PICOBOOT_VID, PICOBOOT_PID_RP2040, Desc_pico, FALSE) >> }

NoVidPid == [some |-> FALSE, vid |-> 0, pid |-> 0]

SomeVidPid(vid, pid) == [some |-> TRUE, vid |-> vid, pid |-> pid]

VidPids ==
  { NoVidPid, SomeVidPid(PICOBOOT_VID, PICOBOOT_PID_RP2040),
    SomeVidPid(PICOBOOT_VID, PICOBOOT_PID_RP2350), SomeVidPid(OTHER_VID, OTHER_PID) }

\* PicobootConnection::open_device: the first device of the bus with the
\* given ids; a device found that cannot be opened panics
open_device(bus, vid, pid) ==
  LET hits == { i \in 1..Len(bus) : bus[i].vid = vid /\ bus[i].pid = pid }
  IN  IF hits = {} THEN [kind |-> "None", dev |-> 0]
      ELSE LET i == CHOOSE h \in hits : \A g \in hits : h <= g
           IN  IF bus[i].openable THEN [kind |-> "Some", dev |-> i]
               ELSE [kind |-> "panic", dev |-> i]

NoEp == [some |-> FALSE, cfg |-> 0, iface |-> 0, setting |-> 0, addr |-> 0]

\* lines 208-219: the first endpoint of eps, from index k on, with the
\* direction and transfer type asked for (0: none)
RECURSIVE first_endpoint(_, _, _, _)
first_endpoint(eps, direction, transfer_type, k) ==
  IF k > Len(eps) THEN 0
  ELSE IF eps[k].dir = direction /\ eps[k].tt = transfer_type THEN k
  ELSE first_endpoint(eps, direction, transfer_type, k + 1)

\* lines 197-220: the alt-settings of one interface, from index j on; an
\* alt-setting of another class triple, or without such an endpoint, is passed
RECURSIVE walk_descriptors(_, _, _, _, _, _, _, _)
walk_descriptors(number, alts, j, class, subclass, protocol, direction, transfer_type) ==
  IF j > Len(alts) THEN NoEp
  ELSE LET a == alts[j]
           k == first_endpoint(a.eps, direction, transfer_type, 1)
       IN  IF a.cls = class /\ a.sub = subclass /\ a.pro = protocol /\ k # 0
           THEN [ some |-> TRUE, cfg |-> number, iface |-> a.ifn,
                  setting |-> a.setting, addr |-> a.eps[k].addr ]
           ELSE walk_descriptors(number, alts, j + 1, class, subclass, protocol,
                                 direction, transfer_type)

\* line 196: the interfaces of one configuration, from index i on
RECURSIVE walk_interfaces(_, _, _, _, _, _, _, _)
walk_interfaces(number, ifaces, i, class, subclass, protocol, direction, transfer_type) ==
  IF i > Len(ifaces) THEN NoEp
  ELSE LET r == walk_descriptors(number, ifaces[i], 1, class, subclass, protocol,
                                 direction, transfer_type)
       IN  IF r.some THEN r
           ELSE walk_interfaces(number, ifaces, i + 1, class, subclass, protocol,
                                direction, transfer_type)

\* line 190: the configurations of the device, from index n on
RECURSIVE walk_configurations(_, _, _, _, _, _, _)
walk_configurations(desc, n, class, subclass, protocol, direction, transfer_type) ==
  IF n > Len(desc) THEN NoEp
  ELSE LET r == walk_interfaces(desc[n].number, desc[n].interfaces, 1, class, subclass,
                                protocol, direction, transfer_type)
       IN  IF r.some THEN r
           ELSE walk_configurations(desc, n + 1, class, subclass, protocol, direction,
                                    transfer_type)

\* PicobootConnection::get_endpoint: walking configurations, interfaces,
\* alt-settings and endpoints in order, the first endpoint of the direction
\* and type asked for inside an alt-setting of the class triple asked for
get_endpoint(desc, class, subclass, protocol, direction, transfer_type) ==
  walk_configurations(desc, 1, class, subclass, protocol, direction, transfer_type)

\* an entry of the log of calls made on the device handle
H(o, a, b, ok) == [op |-> o, a |-> a, b |-> b, ok |-> ok, ret |-> "unit"]

\* the entry of kernel_driver_active, with what it returned: "true", "false"
\* or "err"
HActive(ifn, kda) ==
  [op |-> "kernel_driver_active", a |-> ifn, b |-> 0, ok |-> kda # "err", ret |-> kda]

\* ------------------------------------------------------------------------
\* PicobootConnection::new
\* ------------------------------------------------------------------------
\* a faulty selection that, given None, tries the RP2350 pair first
SelectDevice_rp2350_first(vidpid, bus) ==
  IF vidpid.some
  THEN LET target == IF vidpid.vid = PICOBOOT_VID /\ vidpid.pid = PICOBOOT_PID_RP2040
                     THEN "Rp2040" ELSE "Rp2350"
           d == open_device(bus, vidpid.vid, vidpid.pid)
       IN  [kind |-> d.kind, dev |-> d.dev, target |-> IF d.kind = "Some" THEN target ELSE "none"]
  ELSE LET d1 == open_device(bus, PICOBOOT_VID, PICOBOOT_PID_RP2350)
           d2 == open_device(bus, PICOBOOT_VID, PICOBOOT_PID_RP2040)
       IN  IF d1.kind # "None"
           THEN [kind |-> d1.kind, dev |-> d1.dev,
                 target |-> IF d1.kind = "Some" THEN "Rp2350" ELSE "none"]
           ELSE [kind |-> d2.kind, dev |-> d2.dev,
                 target |-> IF d2.kind = "Some" THEN "Rp2040" ELSE "none"]

\* lines 65-94: the device and the target chosen for it
SelectDevice(vidpid, bus) ==
  IF vidpid.some
  THEN LET target == IF vidpid.vid = PICOBOOT_VID /\ vidpid.pid = PICOBOOT_PID_RP2040
                     THEN "Rp2040" ELSE "Rp2350"
           d == open_device(bus, vidpid.vid, vidpid.pid)
       IN  [kind |-> d.kind, dev |-> d.dev, target |-> IF d.kind = "Some" THEN target ELSE "none"]
  ELSE LET d1 == open_device(bus, PICOBOOT_VID, PICOBOOT_PID_RP2040)
           d2 == open_device(bus, PICOBOOT_VID, PICOBOOT_PID_RP2350)
       IN  IF d1.kind # "None"
           THEN [kind |-> d1.kind, dev |-> d1.dev,
                 target |-> IF d1.kind = "Some" THEN "Rp2040" ELSE "none"]
           ELSE [kind |-> d2.kind, dev |-> d2.dev,
                 target |-> IF d2.kind = "Some" THEN "Rp2350" ELSE "none"]

\* a faulty comparison that looks at the configuration only
SameSetting_cfg_only(e1, e2) == e1.cfg = e2.cfg

\* line 108: the two endpoints sit in the same (cfg, iface, setting)
SameSetting(e1, e2) ==
  e1.cfg = e2.cfg /\ e1.iface = e2.iface /\ e1.setting = e2.setting

\* a faulty match that detaches unless kernel_driver_active returned Ok(false)
DetachNeeded_unless_false(kda) == kda # "false"

\* lines 112-120: the match arm Ok(true); Ok(false) and Err(_) fall to `_`
DetachNeeded(kda) == kda = "true"

CtorErr(e, log) ==
  [ life |-> "ctor_err", err |-> e, target |-> "none", iface |-> 0, in_addr |-> 0,
    out_addr |-> 0, hkd |-> FALSE, hlog |-> log ]

\* a faulty constructor that gives up when set_active_configuration fails
Construct_config_fatal(vidpid, bus, kda, det, setcfg, claim, alt) ==
  LET sel == SelectDevice(vidpid, bus)
  IN
  IF sel.kind = "panic" THEN
    [ life |-> "panicked", err |-> "Device found but failed to open", target |-> "none",
      iface |-> 0, in_addr |-> 0, out_addr |-> 0, hkd |-> FALSE, hlog |-> << >> ]
  ELSE IF sel.kind = "None" THEN CtorErr("UsbDeviceNotFound", << >>)
  ELSE
    LET desc == bus[sel.dev].desc
        e1 == get_endpoint(desc, 255, 0, 0, "In", "Bulk")
        e2 == get_endpoint(desc, 255, 0, 0, "Out", "Bulk")
        l0 == << HActive(e2.iface, kda) >>
        l1 == IF DetachNeeded(kda)
              THEN Append(l0, H("detach_kernel_driver", e2.iface, 0, det = "ok"))
              ELSE l0
        l2 == Append(l1, H("set_active_configuration", e2.cfg, 0, setcfg = "ok"))
        l3 == Append(l2, H("claim_interface", e2.iface, 0, claim = "ok"))
        l4 == Append(l3, H("set_alternate_setting", e2.iface, e2.setting, alt = "ok"))
    IN
    IF ~e1.some \/ ~e2.some THEN CtorErr("UsbEndpointsNotFound", << >>)
    ELSE IF ~SameSetting(e1, e2) THEN CtorErr("UsbEndpointsUnexpected", << >>)
    ELSE IF DetachNeeded(kda) /\ det = "err"
      THEN CtorErr("UsbDetachKernelDriverFailure", l1)
    ELSE IF setcfg = "err" THEN CtorErr("UsbSetConfigurationFailure", l2)
    ELSE IF claim = "err" THEN CtorErr("UsbClaimInterfaceFailure", l3)
    ELSE IF alt = "err" THEN CtorErr("UsbSetAltSettingFailure", l4)
    ELSE [ life |-> "open", err |-> "none", target |-> sel.target, iface |-> e2.iface,
           in_addr |-> e1.addr, out_addr |-> e2.addr, hkd |-> DetachNeeded(kda),
           hlog |-> l4 ]

\* lines 96-151: endpoint binding, kernel driver, configuration, claim,
\* alt-setting.  kda is what kernel_driver_active returned ("true", "false",
\* "err"); det, setcfg, claim, alt are the outcomes of detach_kernel_driver,
\* set_active_configuration, claim_interface and set_alternate_setting.
Construct(vidpid, bus, kda, det, setcfg, claim, alt) ==
  LET sel == SelectDevice(vidpid, bus)
  IN
  IF sel.kind = "panic" THEN
    [ life |-> "panicked", err |-> "Device found but failed to open", target |-> "none",
      iface |-> 0, in_addr |-> 0, out_addr |-> 0, hkd |-> FALSE, hlog |-> << >> ]
  ELSE IF sel.kind = "None" THEN CtorErr("UsbDeviceNotFound", << >>)
  ELSE
    LET desc == bus[sel.dev].desc
        e1 == get_endpoint(desc, 255, 0, 0, "In", "Bulk")
        e2 == get_endpoint(desc, 255, 0, 0, "Out", "Bulk")
        l0 == << HActive(e2.iface, kda) >>
        l1 == IF DetachNeeded(kda)
              THEN Append(l0, H("detach_kernel_driver", e2.iface, 0, det = "ok"))
              ELSE l0
        l2 == Append(l1, H("set_active_configuration", e2.cfg, 0, setcfg = "ok"))
        l3 == Append(l2, H("claim_interface", e2.iface, 0, claim = "ok"))
        l4 == Append(l3, H("set_alternate_setting", e2.iface, e2.setting, alt = "ok"))
    IN
    IF ~e1.some \/ ~e2.some THEN CtorErr("UsbEndpointsNotFound", << >>)
    ELSE IF ~SameSetting(e1, e2) THEN CtorErr("UsbEndpointsUnexpected", << >>)
    ELSE IF DetachNeeded(kda) /\ det = "err"
      THEN CtorErr("UsbDetachKernelDriverFailure", l1)
    ELSE IF claim = "err" THEN CtorErr("UsbClaimInterfaceFailure", l3)
    ELSE IF alt = "err" THEN CtorErr("UsbSetAltSettingFailure", l4)
    ELSE [ life |-> "open", err |-> "none", target |-> sel.target, iface |-> e2.iface,
           in_addr |-> e1.addr, out_addr |-> e2.addr, hkd |-> DetachNeeded(kda),
           hlog |-> l4 ]

\* PicobootConnection::new(ctx, vidpid), bus the devices ctx lists
NewOn(vidpid, bus) ==
  /\ life = "none"
  /\ \E kda \in {"true", "false", "err"},
        det \in Outcomes, setcfg \in Outcomes, claim \in Outcomes, alt \in Outcomes :
       LET c == Construct(vidpid, bus, kda, det, setcfg, claim, alt)
       IN  /\ life' = c.life
           /\ target_id' = c.target
           /\ iface' = c.iface
           /\ in_addr' = c.in_addr
           /\ out_addr' = c.out_addr
           /\ has_kernel_driver' = c.hkd
           /\ hlog' = c.hlog
           /\ cmd_token' = IF c.life = "open" THEN U32(1) ELSE U32(0)
           /\ result' = IF c.life = "open" THEN Ok(<< >>) ELSE Err(c.err)
  /\ op' = "new"
  /\ UNCHANGED << pc, cur, curbuf, res, trace, sent, ncmd, ncalls, env >>

\* new with any argument on any bus
new == ~env.fixed /\ \E vidpid \in VidPids, bus \in Buses : NewOn(vidpid, bus)

\* new with the argument and on the bus the state fixes
new_env == env.fixed /\ NewOn(env.vidpid, env.bus)

\* ------------------------------------------------------------------------
\* impl Drop for PicobootConnection
\* ------------------------------------------------------------------------
\* the calls drop makes on the handle, given the outcomes of release_interface
\* and attach_kernel_driver; .expect() panics on the first failure
DropCalls(hkd, ifn, rel, att) ==
  << H("release_interface", ifn, 0, rel = "ok") >>
    \o (IF rel = "ok" /\ hkd
        THEN << H("attach_kernel_driver", ifn, 0, att = "ok") >>
        ELSE << >>)

DropPanics(hkd, rel, att) == rel = "err" \/ (hkd /\ att = "err")

drop ==
  /\ life = "open"
  /\ pc = "idle"
  /\ \E rel \in Outcomes, att \in Outcomes :
       /\ hlog' = hlog \o DropCalls(has_kernel_driver, iface, rel, att)
       /\ life' = IF DropPanics(has_kernel_driver, rel, att) THEN "panicked" ELSE "dropped"
  /\ op' = "drop"
  /\ UNCHANGED << target_id, iface, in_addr, out_addr, cmd_token, has_kernel_driver,
                  pc, cur, curbuf, res, trace, result, sent, ncmd, ncalls, env >>

\* ------------------------------------------------------------------------
\* bulk_read / bulk_write / get_command_status
\* ------------------------------------------------------------------------
\* a faulty bulk_read that hands back whatever arrived
bulk_read_unchecked(buf_size, check, x) ==
  IF x.err THEN Err("UsbReadBulkFailure") ELSE Ok(DevData(x.len))

\* PicobootConnection::bulk_read, x the outcome of handle.read_bulk
bulk_read(buf_size, check, x) ==
  IF x.err THEN Err("UsbReadBulkFailure")
  ELSE IF check /\ x.len # buf_size THEN Err("UsbReadBulkMismatch")
  ELSE Ok(DevData(x.len))

\* a faulty bulk_write that never compares the transferred length
bulk_write_unchecked(buf, check, x) ==
  IF x.err THEN Err("UsbWriteBulkFailure") ELSE Ok(<< >>)

\* PicobootConnection::bulk_write, x the outcome of handle.write_bulk
bulk_write(buf, check, x) ==
  IF x.err THEN Err("UsbWriteBulkFailure")
  ELSE IF check /\ x.len # Len(buf) THEN Err("UsbWriteBulkMismatch")
  ELSE Ok(<< >>)

\* PicobootConnection::get_command_status, o the outcome of handle.read_control
get_command_status(o) ==
  IF o = "err" THEN Err("UsbGetCommandStatusFailure") ELSE Ok(Zeros(16))

StatusEntry(o) ==
  [ op |-> "read_control", ep |-> 0, req |-> 16, data |-> << >>, check |-> FALSE,
    err |-> ~get_command_status(o).ok, len |-> IF o = "ok" THEN 16 ELSE 0,
    why |-> IF o = "ok" THEN "none" ELSE "Err" ]

\* an entry of the log for a call of the handle that moves no data
CtlEntry(o, ep, ok) ==
  [ op |-> o, ep |-> ep, req |-> 0, data |-> << >>, check |-> FALSE,
    err |-> ~ok, len |-> 0, why |-> IF ok THEN "none" ELSE "Err" ]

\* ------------------------------------------------------------------------
\* PicobootConnection::cmd
\* ------------------------------------------------------------------------
\* a faulty increment that leaves the token where it is
NextToken_stuck(t) == t

\* line 269: self.cmd_token + 1 leaves the range of u32
TokenOverflows(t) == t = U32_MAX

\* what an overflowing `+` does: it panics where overflow checks are compiled
\* in (the default of debug builds) and wraps where they are not (release)
Overflow == { "panic", "wrap" }

\* line 269: self.cmd_token + 1, on 32 bits
NextToken(t) ==
  IF t.lo < 65535 THEN [hi |-> t.hi, lo |-> t.lo + 1]
  ELSE [hi |-> (t.hi + 1) % 65536, lo |-> 0]

\* line 279: l != 0
DataPhase(c) == get_transfer_len(c) # 0

\* a faulty direction test that reads where it should write
DataIsRead_flipped(c) == ~HighBit(get_cmd_id(c))

\* line 280: the data phase is a read
DataIsRead(c) == HighBit(get_cmd_id(c))

\* a faulty ack that travels in the direction of the data phase
AckIsWrite_flipped(c) == ~HighBit(get_cmd_id(c))

\* line 289: the ack is a write
AckIsWrite(c) == HighBit(get_cmd_id(c))

Pending == [ok |-> FALSE, err |-> "pending", val |-> << >>]

\* the public operations that hand cmd's bytes back (the others map them to ())
ReturnsBytes == { "flash_read", "cmd" }

\* the value a public operation returns for cmd's result r
Returned(name, r) == IF r.ok /\ name \notin ReturnsBytes THEN Ok(<< >>) ELSE r

\* a public call may start
CanCall == life = "open" /\ pc = "idle" /\ ncalls < MaxCalls

\* the fields of the connection a transaction leaves alone
conn_fields == << target_id, iface, in_addr, out_addr, has_kernel_driver, hlog, env >>

\* what a call returns that ended in a panic
Panicked(msg) == [ok |-> FALSE, err |-> msg, val |-> << >>]

\* line 269 panicking: nothing is written and the call never returns
cmd_panic ==
  /\ life' = "panicked"
  /\ pc' = "idle"
  /\ result' = Panicked("attempt to add with overflow")
  /\ trace' = << >>
  /\ UNCHANGED << cmd_token, sent >>

\* lines 269-273: the token incremented, the frame serialized and written
cmd_write(cmdu8, name) ==
  /\ cmd_token' = NextToken(cmd_token)
  /\ sent' = Append(sent, U32_de(cmdu8, 4))
  /\ \E x \in Xfers(Len(cmdu8)) :
       LET r == bulk_write(cmdu8, TRUE, x)
       IN  /\ trace' = << Entry("write_bulk", out_addr, Len(cmdu8), cmdu8, TRUE, x) >>
           /\ pc' = IF r.ok THEN "status1" ELSE "idle"
           /\ result' = IF r.ok THEN Pending ELSE Returned(name, r)
  /\ UNCHANGED life

\* lines 267-274: set the token, increment, serialize, write the frame; an
\* increment that overflows either panics, before anything is written, or
\* wraps to 0
cmd(c0, buf, name) ==
  LET c == set_token(c0, cmd_token)
      cmdu8 == Serialize(c)
  IN  /\ cur' = c
      /\ curbuf' = buf
      /\ res' = << >>
      /\ op' = name
      /\ ncmd' = ncmd + 1
      /\ ncalls' = ncalls + 1
      /\ IF TokenOverflows(cmd_token)
         THEN \E ov \in Overflow :
                IF ov = "panic" THEN cmd_panic ELSE cmd_write(cmdu8, name)
         ELSE cmd_write(cmdu8, name)
      /\ UNCHANGED conn_fields

\* a faulty first poll whose failure ends the transaction
cmd_status1_checked ==
  /\ pc = "status1"
  /\ \E o \in Outcomes :
       /\ trace' = Append(trace, StatusEntry(o))
       /\ pc' = IF ~get_command_status(o).ok THEN "idle"
                ELSE IF DataPhase(cur) THEN "data" ELSE "ack"
       /\ result' = IF get_command_status(o).ok THEN result
                    ELSE Returned(op, get_command_status(o))
  /\ UNCHANGED << conn, cmd_token, op, cur, curbuf, res, sent, ncmd, ncalls >>

\* line 274: the first status poll, its result dropped
cmd_status1 ==
  /\ pc = "status1"
  /\ \E o \in Outcomes : trace' = Append(trace, StatusEntry(o))
  /\ pc' = IF DataPhase(cur) THEN "data" ELSE "ack"
  /\ UNCHANGED << conn, cmd_token, op, cur, curbuf, res, result, sent, ncmd, ncalls >>

\* a faulty data phase that clears the halt of its endpoint when the
\* transfer fails
cmd_data_recovering ==
  /\ pc = "data"
  /\ LET l == get_transfer_len(cur)
     IN  IF DataIsRead(cur)
         THEN \E x \in Xfers(l) :
                LET r == bulk_read(l, TRUE, x)
                    e == Entry("read_bulk", in_addr, l, << >>, TRUE, x)
                IN  /\ trace' = IF r.ok THEN Append(trace, e)
                                ELSE trace \o << e, CtlEntry("clear_halt", in_addr, TRUE) >>
                    /\ res' = IF r.ok THEN r.val ELSE res
                    /\ pc' = IF r.ok THEN "status2" ELSE "idle"
                    /\ result' = IF r.ok THEN result ELSE Returned(op, r)
         ELSE \E x \in Xfers(Len(curbuf)) :
                LET r == bulk_write(curbuf, TRUE, x)
                    e == Entry("write_bulk", out_addr, Len(curbuf), curbuf, TRUE, x)
                IN  /\ trace' = IF r.ok THEN Append(trace, e)
                                ELSE trace \o << e, CtlEntry("clear_halt", out_addr, TRUE) >>
                    /\ res' = res
                    /\ pc' = IF r.ok THEN "status2" ELSE "idle"
                    /\ result' = IF r.ok THEN result ELSE Returned(op, r)
  /\ UNCHANGED << conn, cmd_token, op, cur, curbuf, sent, ncmd, ncalls >>

\* lines 279-284: the data phase
cmd_data ==
  /\ pc = "data"
  /\ LET l == get_transfer_len(cur)
     IN  IF DataIsRead(cur)
         THEN \E x \in Xfers(l) :
                LET r == bulk_read(l, TRUE, x)
                IN  /\ trace' = Append(trace, Entry("read_bulk", in_addr, l, << >>, TRUE, x))
                    /\ res' = IF r.ok THEN r.val ELSE res
                    /\ pc' = IF r.ok THEN "status2" ELSE "idle"
                    /\ result' = IF r.ok THEN result ELSE Returned(op, r)
         ELSE \E x \in Xfers(Len(curbuf)) :
                LET r == bulk_write(curbuf, TRUE, x)
                IN  /\ trace' = Append(trace,
                                  Entry("write_bulk", out_addr, Len(curbuf), curbuf, TRUE, x))
                    /\ res' = res
                    /\ pc' = IF r.ok THEN "status2" ELSE "idle"
                    /\ result' = IF r.ok THEN result ELSE Returned(op, r)
  /\ UNCHANGED << conn, cmd_token, op, cur, curbuf, sent, ncmd, ncalls >>

\* a faulty second poll that is left out
cmd_status2_skipped ==
  /\ pc = "status2"
  /\ pc' = "ack"
  /\ UNCHANGED << conn, cmd_token, op, cur, curbuf, res, trace, result, sent, ncmd, ncalls >>

\* line 285: the second status poll, its result dropped
cmd_status2 ==
  /\ pc = "status2"
  /\ \E o \in Outcomes : trace' = Append(trace, StatusEntry(o))
  /\ pc' = "ack"
  /\ UNCHANGED << conn, cmd_token, op, cur, curbuf, res, result, sent, ncmd, ncalls >>

\* a faulty ack whose outcome is not looked at
cmd_ack_unchecked ==
  /\ pc = "ack"
  /\ IF AckIsWrite(cur)
     THEN \E x \in Xfers(1) :
            trace' = Append(trace, Entry("write_bulk", out_addr, 1, << 0 >>, FALSE, x))
     ELSE \E x \in Xfers(1) :
            trace' = Append(trace, Entry("read_bulk", in_addr, 1, << >>, FALSE, x))
  /\ result' = Returned(op, Ok(res))
  /\ pc' = "idle"
  /\ UNCHANGED << conn, cmd_token, op, cur, curbuf, res, sent, ncmd, ncalls >>

\* a faulty ack that is length-checked like the other transfers
cmd_ack_checked ==
  /\ pc = "ack"
  /\ IF AckIsWrite(cur)
     THEN \E x \in Xfers(1) :
            LET r == bulk_write(<< 0 >>, TRUE, x)
            IN  /\ trace' = Append(trace, Entry("write_bulk", out_addr, 1, << 0 >>, FALSE, x))
                /\ result' = Returned(op, IF r.ok THEN Ok(res) ELSE r)
     ELSE \E x \in Xfers(1) :
            LET r == bulk_read(1, TRUE, x)
            IN  /\ trace' = Append(trace, Entry("read_bulk", in_addr, 1, << >>, FALSE, x))
                /\ result' = Returned(op, IF r.ok THEN Ok(res) ELSE r)
  /\ pc' = "idle"
  /\ UNCHANGED << conn, cmd_token, op, cur, curbuf, res, sent, ncmd, ncalls >>

\* a faulty ack that is tried a second time when its transfer fails
cmd_ack_retrying ==
  /\ pc = "ack"
  /\ \E x \in Xfers(1) :
       LET again == x.err /\ trace[Len(trace)].op = "read_control"
           r == IF AckIsWrite(cur) THEN bulk_write(<< 0 >>, FALSE, x)
                ELSE bulk_read(1, FALSE, x)
           e == IF AckIsWrite(cur)
                THEN Entry("write_bulk", out_addr, 1, << 0 >>, FALSE, x)
                ELSE Entry("read_bulk", in_addr, 1, << >>, FALSE, x)
       IN  /\ trace' = Append(trace, e)
           /\ pc' = IF again THEN "ack" ELSE "idle"
           /\ result' = IF again THEN result ELSE Returned(op, IF r.ok THEN Ok(res) ELSE r)
  /\ UNCHANGED << conn, cmd_token, op, cur, curbuf, res, sent, ncmd, ncalls >>

\* lines 288-295: the ack and the return
cmd_ack ==
  /\ pc = "ack"
  /\ IF AckIsWrite(cur)
     THEN \E x \in Xfers(1) :
            LET r == bulk_write(<< 0 >>, FALSE, x)
            IN  /\ trace' = Append(trace, Entry("write_bulk", out_addr, 1, << 0 >>, FALSE, x))
                /\ result' = Returned(op, IF r.ok THEN Ok(res) ELSE r)
     ELSE \E x \in Xfers(1) :
            LET r == bulk_read(1, FALSE, x)
            IN  /\ trace' = Append(trace, Entry("read_bulk", in_addr, 1, << >>, FALSE, x))
                /\ result' = Returned(op, IF r.ok THEN Ok(res) ELSE r)
  /\ pc' = "idle"
  /\ UNCHANGED << conn, cmd_token, op, cur, curbuf, res, sent, ncmd, ncalls >>

\* ------------------------------------------------------------------------
\* Inputs of the public operations
\* ------------------------------------------------------------------------
Bufs == { << >>, [i \in 1..MaxLen |-> 17] }

EraseAddrs == { PICO_FLASH_START, PICO_FLASH_START + 1 }

EraseSizes == { 0, PICO_SECTOR_SIZE + 1 }

WriteAddrs == { PICO_FLASH_START, PICO_FLASH_START + 128 }

ReadAddrs == { PICO_FLASH_START }

ReadSizes == { 0, MaxLen }

Delays == { 500 }

\* the frames handed to the public cmd: one frame of every builder
BuilderFrames ==
  { Cmd_exclusive_access(1),
    Cmd_reboot(0, PICO_STACK_POINTER, 500),
    Cmd_reboot2_normal(500),
    Cmd_flash_erase(PICO_FLASH_START, PICO_SECTOR_SIZE),
    Cmd_flash_write(PICO_FLASH_START, MaxLen),
    Cmd_flash_read(PICO_FLASH_START, MaxLen),
    Cmd_enter_xip,
    Cmd_exit_xip }

\* the bufs handed to the public cmd with frame c: a payload only for a frame
\* whose data phase writes it
PubBufs(c) == IF c.transfer_len # 0 /\ ~HighBit(c.cmd_id) THEN Bufs ELSE { << >> }

\* ------------------------------------------------------------------------
\* Public operations of PicobootConnection
\* ------------------------------------------------------------------------
\* the public entry point cmd, given a frame of the builders
pub_cmd ==
  /\ CanCall
  /\ \E c \in BuilderFrames : \E buf \in PubBufs(c) : cmd(c, buf, "cmd")

set_exclusive_access(exclusive, name) ==
  cmd(Cmd_exclusive_access(exclusive), << >>, name)

access_not_exclusive == CanCall /\ set_exclusive_access(0, "access_not_exclusive")

access_exclusive == CanCall /\ set_exclusive_access(1, "access_exclusive")

access_exclusive_eject == CanCall /\ set_exclusive_access(2, "access_exclusive_eject")

reboot ==
  /\ CanCall
  /\ \E d \in Delays : cmd(Cmd_reboot(0, PICO_STACK_POINTER, d), << >>, "reboot")

\* a call rejected before cmd: nothing is sent, the error is returned
Reject(name, e) ==
  /\ op' = name
  /\ trace' = << >>
  /\ result' = Err(e)
  /\ ncalls' = ncalls + 1
  /\ UNCHANGED << conn, cmd_token, pc, cur, curbuf, res, sent, ncmd >>

\* a faulty target check that lets every target through
Reboot2Allowed_any(t) == TRUE

\* lines 355-360: the target check of reboot2_normal
Reboot2Allowed(t) == t # "Rp2040"

reboot2_normal ==
  /\ CanCall
  /\ \E d \in Delays :
       IF Reboot2Allowed(target_id)
       THEN cmd(Cmd_reboot2_normal(d), << >>, "reboot2_normal")
       ELSE Reject("reboot2_normal", "CmdNotAllowedForTarget")

flash_erase ==
  /\ CanCall
  /\ \E addr \in EraseAddrs, size \in EraseSizes :
       cmd(Cmd_flash_erase(addr, size), << >>, "flash_erase")

flash_write ==
  /\ CanCall
  /\ \E addr \in WriteAddrs, buf \in Bufs :
       cmd(Cmd_flash_write(addr, Len(buf)), buf, "flash_write")

flash_read ==
  /\ CanCall
  /\ \E addr \in ReadAddrs, size \in ReadSizes :
       cmd(Cmd_flash_read(addr, size), << >>, "flash_read")

enter_xip == CanCall /\ cmd(Cmd_enter_xip, << >>, "enter_xip")

exit_xip == CanCall /\ cmd(Cmd_exit_xip, << >>, "exit_xip")

\* the entry of a control-out transfer with an empty buffer; data holds its
\* setup fields (request_type, request, value, index)
ControlOut(request_type, request, value, index, ok) ==
  [ op |-> "write_control", ep |-> 0, req |-> 0,
    data |-> << request_type, request, value, index >>, check |-> FALSE,
    err |-> ~ok, len |-> 0, why |-> IF ok THEN "none" ELSE "Err" ]

\* a faulty reset_interface that goes through its three steps whatever they
\* return and reports the first failure afterwards
reset_interface_all ==
  /\ CanCall
  /\ \E o1 \in Outcomes, o2 \in Outcomes, o3 \in Outcomes :
       /\ trace' = << CtlEntry("clear_halt", in_addr, o1 = "ok"),
                      CtlEntry("clear_halt", out_addr, o2 = "ok"),
                      ControlOut(65, 65, 0, iface, o3 = "ok") >>
       /\ result' = IF o1 = "err" THEN Err("UsbClearInAddrHalt")
                    ELSE IF o2 = "err" THEN Err("UsbClearOutAddrHalt")
                    ELSE IF o3 = "err" THEN Err("UsbResetInterfaceFailure")
                    ELSE Ok(<< >>)
  /\ op' = "reset_interface"
  /\ ncalls' = ncalls + 1
  /\ UNCHANGED << conn, cmd_token, pc, cur, curbuf, res, sent, ncmd >>

\* PicobootConnection::reset_interface: clear_halt IN, clear_halt OUT, then the
\* zero-length control-out (0b01000001, 0b01000001, 0, iface); the first
\* failure returns
reset_interface ==
  /\ CanCall
  /\ \E o1 \in Outcomes, o2 \in Outcomes, o3 \in Outcomes :
       LET t1 == << CtlEntry("clear_halt", in_addr, o1 = "ok") >>
           t2 == Append(t1, CtlEntry("clear_halt", out_addr, o2 = "ok"))
           t3 == Append(t2, ControlOut(65, 65, 0, iface, o3 = "ok"))
       IN  IF o1 = "err" THEN trace' = t1 /\ result' = Err("UsbClearInAddrHalt")
           ELSE IF o2 = "err" THEN trace' = t2 /\ result' = Err("UsbClearOutAddrHalt")
           ELSE IF o3 = "err" THEN trace' = t3 /\ result' = Err("UsbResetInterfaceFailure")
           ELSE trace' = t3 /\ result' = Ok(<< >>)
  /\ op' = "reset_interface"
  /\ ncalls' = ncalls + 1
  /\ UNCHANGED << conn, cmd_token, pc, cur, curbuf, res, sent, ncmd >>

\* ------------------------------------------------------------------------
\* Specification
\* ------------------------------------------------------------------------
Next ==
  \/ new
  \/ drop
  \/ pub_cmd
  \/ access_not_exclusive
  \/ access_exclusive
  \/ access_exclusive_eject
  \/ reboot
  \/ reboot2_normal
  \/ flash_erase
  \/ flash_write
  \/ flash_read
  \/ enter_xip
  \/ exit_xip
  \/ reset_interface
  \/ cmd_status1
  \/ cmd_data
  \/ cmd_status2
  \/ cmd_ack

Spec == Init /\ [][Next]_vars

\* ------------------------------------------------------------------------
\* Construction and teardown alone, on a fixed argument and bus
\* ------------------------------------------------------------------------
\* a vendor interface with bulk IN only, followed by one with both endpoints
Desc_in_then_both ==
  << [ number |-> 1,
       interfaces |->
         << << Alt(0, 0, 255, 0, 0, << Ep("In", "Bulk", 129) >>) >>,
            << Alt(1, 0, 255, 0, 0, << Ep("Out", "Bulk", 3), Ep("In", "Bulk", 132) >>) >> >> ] >>

\* mass storage only: no vendor interface
Desc_msc_only ==
  << [ number |-> 1,
       interfaces |->
         << << Alt(0, 0, 8, 6, 80, << Ep("In", "Bulk", 129), Ep("Out", "Bulk", 2) >>) >> >> ] >>

CtorDescs == Descs \cup { Desc_alt1, Desc_in_then_both, Desc_msc_only }

CtorBuses ==
  Buses
    \cup { << Dev(PICOBOOT_VID, PICOBOOT_PID_RP2040, d, TRUE) >> : d \in CtorDescs }
    \cup { << Dev(PICOBOOT_VID, PICOBOOT_PID_RP2350, d, TRUE) >> : d \in CtorDescs }
    \cup { << Dev(OTHER_VID, OTHER_PID, Desc_pico, TRUE),
              Dev(PICOBOOT_VID, PICOBOOT_PID_RP2350, Desc_pico, TRUE) >>,
           << Dev(PICOBOOT_VID, PICOBOOT_PID_RP2040, Desc_split, TRUE),
              Dev(PICOBOOT_VID, PICOBOOT_PID_RP2350, Desc_pico, TRUE) >> }

CtorEnvs ==
  { [fixed |-> TRUE, vidpid |-> v, bus |-> b] : v \in VidPids, b \in CtorBuses }

InitCtor == Fresh /\ env \in CtorEnvs

NextCtor ==
  \/ new_env
  \/ drop

SpecCtor == InitCtor /\ [][NextCtor]_vars

\* ------------------------------------------------------------------------
\* A connection late in its life: the token counter at its last value
\* ------------------------------------------------------------------------
\* a connection constructed on the PICOBOOT layout
LateConn(pid) ==
  Construct(NoVidPid, << Dev(PICOBOOT_VID, pid, Desc_pico, TRUE) >>,
            "false", "ok", "ok", "ok", "ok")

\* the frame of the exit_xip that took the token before the last
LateCmd == set_token(Cmd_exit_xip, [hi |-> 65535, lo |-> 65534])

\* the connection after that exit_xip succeeded: cmd_token holds 0xFFFFFFFF;
\* sent, ncmd and ncalls count from this transaction on
InitLate ==
  /\ \E pid \in { PICOBOOT_PID_RP2040, PICOBOOT_PID_RP2350 } :
       LET c == LateConn(pid)
       IN  /\ life = c.life
           /\ target_id = c.target
           /\ iface = c.iface
           /\ in_addr = c.in_addr
           /\ out_addr = c.out_addr
           /\ has_kernel_driver = c.hkd
           /\ hlog = c.hlog
           /\ trace = << Entry("write_bulk", c.out_addr, 32, Serialize(LateCmd), TRUE,
                               [err |-> FALSE, len |-> 32, why |-> "none"]),
                         StatusEntry("ok"),
                         Entry("read_bulk", c.in_addr, 1, << >>, FALSE,
                               [err |-> FALSE, len |-> 1, why |-> "none"]) >>
  /\ cmd_token = U32_MAX
  /\ pc = "idle"
  /\ op = "exit_xip"
  /\ cur = LateCmd
  /\ curbuf = << >>
  /\ res = << >>
  /\ result = Ok(<< >>)
  /\ sent = << LateCmd.token >>
  /\ ncmd = 1
  /\ ncalls = 1
  /\ env = NoEnv

NextLate ==
  \/ drop
  \/ pub_cmd
  \/ access_not_exclusive
  \/ access_exclusive
  \/ access_exclusive_eject
  \/ reboot
  \/ reboot2_normal
  \/ flash_erase
  \/ flash_write
  \/ flash_read
  \/ enter_xip
  \/ exit_xip
  \/ reset_interface
  \/ cmd_status1
  \/ cmd_data
  \/ cmd_status2
  \/ cmd_ack

SpecLate == InitLate /\ [][NextLate]_vars

\* ------------------------------------------------------------------------
\* Reading the log of a call
\* ------------------------------------------------------------------------
\* the last call entered cmd (its log starts with the frame write)
InCmd == op \notin { "none", "new", "drop", "reset_interface" } /\ trace # << >>

IsBulk(e) == e.op \in { "read_bulk", "write_bulk" }

\* the phase an entry of a transaction's log belongs to
Kind(e) ==
  IF e.op = "read_control" THEN "status"
  ELSE IF IsBulk(e) /\ ~e.check THEN "ack"
  ELSE IF e.op = "write_bulk" /\ Len(e.data) = 32 THEN "frame"
  ELSE IF IsBulk(e) THEN "data"
  ELSE "other"

Kinds(t) == [i \in 1..Len(t) |-> Kind(t[i])]

\* a checked transfer failed: transport error or a length other than asked
Failed(e) == e.err \/ e.len # e.req

\* fields of a serialized frame
FrameToken(b) == U32_de(b, 4)

FrameCmdId(b) == b[9]

FrameTransferLen(b) == RdLE32(b, 12)

FrameArgAddr(b) == RdLE32(b, 16)

FrameArgSize(b) == RdLE32(b, 20)

\* ------------------------------------------------------------------------
\* Claims
\* ------------------------------------------------------------------------

\* C1: a command transaction that returned success performed exactly: the
\* frame write, a status poll, then (iff transfer_len # 0) the data transfer
\* and a second status poll, then the ack, and nothing else.
C1_PhaseOrder ==
  (InCmd /\ pc = "idle" /\ result.ok) =>
    /\ Kinds(trace) =
         IF FrameTransferLen(trace[1].data) # 0
         THEN << "frame", "status", "data", "status", "ack" >>
         ELSE << "frame", "status", "ack" >>
    /\ trace[1].ep = out_addr
    /\ trace[Len(trace)].req = 1

C1_Witness ==
  InCmd /\ pc = "idle" /\ result.ok /\ Len(trace) = 5

\* C2: the k-th call that reaches cmd writes the frame with token k; calls
\* that do not reach cmd (reset_interface, a rejected reboot2_normal) take no
\* token, and a failed transaction takes its token all the same.
C2_TokenSequence ==
  /\ Len(sent) = ncmd
  /\ \A k \in 1..Len(sent) : sent[k] = U32(k)
  /\ InCmd => FrameToken(trace[1].data) = U32(ncmd)
  /\ ncmd <= ncalls

C2_Witness ==
  /\ InCmd /\ pc = "idle" /\ ncalls = 3 /\ ncmd = 2
  /\ sent = << U32(1), U32(2) >> /\ FrameToken(trace[1].data) = U32(2) /\ ~result.ok

\* C3: the ack is a write of one zero byte on bulk OUT when cmd_id has its
\* high bit set and a 1-byte read on bulk IN otherwise; after a data phase it
\* travels on the other endpoint than the data.
C3_AckDirection ==
  (InCmd /\ pc = "idle" /\ Len(trace) = (IF cur.transfer_len # 0 THEN 5 ELSE 3)) =>
    LET a == trace[Len(trace)]
    IN  /\ cur.cmd_id >= 128 =>
             a.op = "write_bulk" /\ a.ep = out_addr /\ a.data = << 0 >>
        /\ cur.cmd_id < 128 =>
             a.op = "read_bulk" /\ a.ep = in_addr /\ a.req = 1
        /\ Len(trace) = 5 => (trace[3].ep # a.ep /\ trace[3].op # a.op)

C3_Witness ==
  /\ InCmd /\ pc = "idle" /\ Len(trace) = 5 /\ cur.cmd_id >= 128
  /\ trace[3].op = "read_bulk" /\ trace[5].op = "write_bulk"

\* C4: a transaction has a data transfer iff transfer_len # 0, and the high
\* bit of cmd_id alone decides its direction: a read of transfer_len bytes on
\* bulk IN when set, a write of the payload on bulk OUT when clear.
C4_DataPhase ==
  InCmd =>
    /\ \A i \in 2..Len(trace) :
         Kind(trace[i]) = "data" =>
           /\ cur.transfer_len # 0
           /\ i = 3
           /\ cur.cmd_id >= 128 =>
                /\ trace[i].op = "read_bulk"
                /\ trace[i].ep = in_addr
                /\ trace[i].req = cur.transfer_len
           /\ cur.cmd_id < 128 =>
                /\ trace[i].op = "write_bulk"
                /\ trace[i].ep = out_addr
                /\ trace[i].data = curbuf
    /\ pc = "ack" =>
         (cur.transfer_len # 0 <=> \E i \in 2..Len(trace) : Kind(trace[i]) = "data")
    /\ pc = "data" => cur.transfer_len # 0

C4_Witness ==
  /\ InCmd /\ pc = "ack" /\ cur.transfer_len # 0 /\ cur.cmd_id < 128
  /\ trace[3].op = "write_bulk" /\ trace[3].data = curbuf

\* C5: when the frame write or the data transfer fails (transport error or a
\* length other than requested) it is the last transport operation of the
\* call, and the call returns that error.
C5_AbortOnFailure ==
  InCmd =>
    \A i \in 1..Len(trace) :
      (Kind(trace[i]) \in { "frame", "data" } /\ Failed(trace[i])) =>
        /\ i = Len(trace)
        /\ pc = "idle"
        /\ ~result.ok
        /\ result.err =
             IF trace[i].op = "write_bulk"
             THEN (IF trace[i].err THEN "UsbWriteBulkFailure" ELSE "UsbWriteBulkMismatch")
             ELSE (IF trace[i].err THEN "UsbReadBulkFailure" ELSE "UsbReadBulkMismatch")

C5_Witness ==
  /\ InCmd /\ pc = "idle" /\ Len(trace) = 3 /\ Kind(trace[3]) = "data"
  /\ ~trace[3].err /\ trace[3].len # trace[3].req
  /\ result.err = "UsbReadBulkMismatch"

\* C6: flash_erase sends nothing for an addr or a size that is no multiple
\* of 4096: every FlashErase frame it writes has addr and size multiples of
\* the sector size.
C6_EraseValidated ==
  (op = "flash_erase" /\ trace # << >>) =>
    /\ FrameArgAddr(trace[1].data) % PICO_SECTOR_SIZE = 0
    /\ FrameArgSize(trace[1].data) % PICO_SECTOR_SIZE = 0

\* C7: flash_write sends nothing for an addr that is no multiple of 256:
\* every Write frame it writes has addr a multiple of the page size.
C7_WriteValidated ==
  (op = "flash_write" /\ trace # << >>) =>
    FrameArgAddr(trace[1].data) % PICO_PAGE_SIZE = 0

\* C8: reboot2_normal on an RP2040 connection returns CmdNotAllowedForTarget
\* with no transfer performed; on an RP2350 connection it runs a Reboot2
\* transaction.
C8_Reboot2Gate ==
  op = "reboot2_normal" =>
    /\ target_id = "Rp2040" =>
         trace = << >> /\ pc = "idle" /\ result = Err("CmdNotAllowedForTarget")
    /\ target_id = "Rp2350" =>
         /\ trace # << >>
         /\ Kind(trace[1]) = "frame"
         /\ FrameCmdId(trace[1].data) = Id_Reboot2

C8_Witness ==
  op = "reboot2_normal" /\ target_id = "Rp2040" /\ ncalls = 2 /\ ncmd = 1
    /\ result.err = "CmdNotAllowedForTarget"

\* C9: on an RP2040 connection no public operation, the public cmd with a
\* builder's frame included, writes a frame whose cmd_id is Reboot2, GetInfo,
\* OtpRead or OtpWrite.
C9_Rp2040NeverEmits ==
  (target_id = "Rp2040" /\ InCmd) =>
    FrameCmdId(trace[1].data) \notin { Id_Reboot2, Id_GetInfo, Id_OtpRead, Id_OtpWrite }

\* C10: drop calls release_interface exactly once, and attach_kernel_driver
\* iff detach_kernel_driver was performed during construction.
Count(o) == Cardinality({ i \in 1..Len(hlog) : hlog[i].op = o })

C10_TeardownSymmetry ==
  op = "drop" =>
    /\ Count("release_interface") = 1
    /\ Count("attach_kernel_driver") = Count("detach_kernel_driver")

\* the calls of the handle named o that returned Ok
CountOk(o) == Cardinality({ i \in 1..Len(hlog) : hlog[i].op = o /\ hlog[i].ok })

C12_ReattachOnEveryExit ==
  (life \in { "ctor_err", "dropped", "panicked" } /\ CountOk("detach_kernel_driver") = 1) =>
    Count("attach_kernel_driver") = 1

\* C13: drop completes normally whatever release_interface and
\* attach_kernel_driver return: the destructor never panics.
C13_TeardownNeverRaises ==
  op = "drop" => life = "dropped"

\* the bulk transfers of a log, the status polls left out
Bulks(t) == SelectSeq(t, IsBulk)

\* the bytes a transaction read in its data phase, by its bulk transfers
BytesRead(b) ==
  IF \E i \in 1..Len(b) : b[i].op = "read_bulk" /\ b[i].check
  THEN DevData((CHOOSE e \in { b[i] : i \in 1..Len(b) } : e.op = "read_bulk" /\ e.check).len)
  ELSE << >>

\* the result of a returned transaction as its bulk transfers alone decide it
ResultOfBulks(b, name) ==
  LET e == b[Len(b)]
  IN  IF e.err
      THEN Err(IF e.op = "write_bulk" THEN "UsbWriteBulkFailure" ELSE "UsbReadBulkFailure")
      ELSE IF e.check /\ e.len # e.req
      THEN Err(IF e.op = "write_bulk" THEN "UsbWriteBulkMismatch" ELSE "UsbReadBulkMismatch")
      ELSE IF name \in ReturnsBytes THEN Ok(BytesRead(b)) ELSE Ok(<< >>)

\* the phase that follows the status poll at position i of a log
PhaseAfterPoll(t, i) ==
  IF i = 2 /\ FrameTransferLen(t[1].data) # 0 THEN "data" ELSE "ack"

\* C14: a failed status poll is swallowed: the transaction goes on to the
\* phase that follows the poll, and what it returns is decided by its bulk
\* transfers alone, so it is the result of the same transaction with the
\* poll succeeding.
C14_PollFailureSwallowed ==
  InCmd =>
    /\ \A i \in 1..Len(trace) :
         (Kind(trace[i]) = "status" /\ trace[i].err) =>
           IF i = Len(trace)
           THEN pc = PhaseAfterPoll(trace, i)
           ELSE Kind(trace[i + 1]) = PhaseAfterPoll(trace, i)
    /\ pc = "idle" => result = ResultOfBulks(Bulks(trace), op)
    /\ pc # "idle" => result = Pending

C14_Witness ==
  /\ op = "flash_read" /\ pc = "idle" /\ Len(trace) = 5
  /\ trace[2].err /\ trace[4].err
  /\ result = Ok(DevData(MaxLen))

\* C15: a flash_read(addr, size) that returned success returned exactly size
\* bytes, size 0 included; a data phase in which the device delivered a
\* number of bytes other than size ended the call with UsbReadBulkMismatch.
C15_ReadLength ==
  (op = "flash_read" /\ InCmd) =>
    /\ (pc = "idle" /\ result.ok) => Len(result.val) = FrameArgSize(trace[1].data)
    /\ \A i \in 1..Len(trace) :
         (Kind(trace[i]) = "data" /\ ~trace[i].err
            /\ trace[i].len # FrameArgSize(trace[1].data)) =>
           pc = "idle" /\ result = Err("UsbReadBulkMismatch")

C15_Witness ==
  /\ op = "flash_read" /\ pc = "idle" /\ result.ok
  /\ FrameArgSize(trace[1].data) = MaxLen /\ Len(result.val) = MaxLen
  /\ ~trace[2].err

C15_WitnessEmpty ==
  /\ op = "flash_read" /\ pc = "idle" /\ result = Ok(<< >>)
  /\ FrameArgSize(trace[1].data) = 0 /\ Kinds(trace) = << "frame", "status", "ack" >>

C15_WitnessShort ==
  /\ op = "flash_read" /\ pc = "idle" /\ result = Err("UsbReadBulkMismatch")
  /\ trace[3].req = MaxLen /\ trace[3].len = MaxLen - 1

\* C16: the frame of flash_read and of flash_write carries in transfer_len
\* the size field of its Range args; for flash_write both are the length of
\* the buffer, and the data phase hands that buffer, whole, to bulk OUT.
C16_TransferLenIsSize ==
  (op \in { "flash_read", "flash_write" } /\ InCmd) =>
    /\ FrameTransferLen(trace[1].data) = FrameArgSize(trace[1].data)
    /\ op = "flash_write" =>
         /\ FrameTransferLen(trace[1].data) = Len(curbuf)
         /\ \A i \in 1..Len(trace) :
              Kind(trace[i]) = "data" =>
                /\ trace[i].op = "write_bulk"
                /\ trace[i].ep = out_addr
                /\ trace[i].data = curbuf
                /\ trace[i].req = FrameArgSize(trace[1].data)

C16_Witness ==
  /\ op = "flash_write" /\ pc = "idle" /\ result.ok
  /\ Len(curbuf) = MaxLen /\ FrameArgSize(trace[1].data) = MaxLen
  /\ Kind(trace[3]) = "data" /\ Len(trace[3].data) = MaxLen

\* the error reset_interface returns when its step n fails
ResetError(n) ==
  IF n = 1 THEN "UsbClearInAddrHalt"
  ELSE IF n = 2 THEN "UsbClearOutAddrHalt"
  ELSE "UsbResetInterfaceFailure"

\* C17: reset_interface performs clear_halt on bulk IN, clear_halt on bulk
\* OUT, then one zero-length control-out (0x41, 0x41, 0, iface), in this
\* order; a step that fails is the last one performed and its error is the
\* one returned; no bulk transfer is performed.
C17_ResetSequence ==
  op = "reset_interface" =>
    LET n == Len(trace)
    IN  /\ n \in 1..3
        /\ pc = "idle"
        /\ trace[1].op = "clear_halt" /\ trace[1].ep = in_addr
        /\ n >= 2 => trace[2].op = "clear_halt" /\ trace[2].ep = out_addr
        /\ n = 3 => /\ trace[3].op = "write_control"
                    /\ trace[3].data = << 65, 65, 0, iface >>
                    /\ trace[3].req = 0
        /\ \A i \in 1..n : ~IsBulk(trace[i]) /\ (trace[i].err => i = n)
        /\ result = IF trace[n].err THEN Err(ResetError(n)) ELSE Ok(<< >>)
        /\ result.ok => n = 3

C17_Witness ==
  /\ op = "reset_interface" /\ result = Err("UsbClearOutAddrHalt")
  /\ Len(trace) = 2 /\ ~trace[1].err /\ trace[2].err

C17_WitnessOk ==
  /\ op = "reset_interface" /\ result.ok /\ Len(trace) = 3
  /\ trace[3].data = << 65, 65, 0, iface >>

\* ------------------------------------------------------------------------
\* Claims on construction (SpecCtor)
\* ------------------------------------------------------------------------
\* the bus holds a device with these ids
OnBus(vid, pid) ==
  \E i \in 1..Len(env.bus) : env.bus[i].vid = vid /\ env.bus[i].pid = pid

\* C18: a connection constructed with an explicit (vid, pid) has target
\* RP2040 iff the pair is (0x2E8A, 0x0003), and RP2350 otherwise; constructed
\* with None it has target RP2040 when a (0x2E8A, 0x0003) device is on the
\* bus, otherwise RP2350 and a (0x2E8A, 0x000F) device is on the bus; with
\* no device of the pair(s) tried construction fails with UsbDeviceNotFound.
C18_TargetSelection ==
  (env.fixed /\ op = "new") =>
    /\ (life = "open" /\ env.vidpid.some) =>
         /\ OnBus(env.vidpid.vid, env.vidpid.pid)
         /\ target_id = IF env.vidpid.vid = 11914 /\ env.vidpid.pid = 3
                        THEN "Rp2040" ELSE "Rp2350"
    /\ (life = "open" /\ ~env.vidpid.some) =>
         /\ OnBus(11914, 3) => target_id = "Rp2040"
         /\ ~OnBus(11914, 3) => target_id = "Rp2350" /\ OnBus(11914, 15)
    /\ (~env.vidpid.some /\ ~OnBus(11914, 3) /\ ~OnBus(11914, 15)) =>
         life = "ctor_err" /\ result = Err("UsbDeviceNotFound")
    /\ (env.vidpid.some /\ ~OnBus(env.vidpid.vid, env.vidpid.pid)) =>
         life = "ctor_err" /\ result = Err("UsbDeviceNotFound")

C18_Witness ==
  /\ env.fixed /\ op = "new" /\ life = "open" /\ ~env.vidpid.some
  /\ Len(env.bus) = 2 /\ env.bus[1].pid = 15 /\ env.bus[2].pid = 3
  /\ target_id = "Rp2040"

C18_WitnessExplicit ==
  /\ env.fixed /\ op = "new" /\ life = "open" /\ env.vidpid.some
  /\ env.vidpid.vid # 11914 /\ target_id = "Rp2350"

C18_WitnessNotFound ==
  /\ env.fixed /\ op = "new" /\ ~env.vidpid.some /\ Len(env.bus) = 1
  /\ result = Err("UsbDeviceNotFound")

\* the alt-settings of a device with the class triple (0xFF, 0, 0), each
\* with the number of its configuration
VendorAlts(desc) ==
  UNION { UNION { { [cfg |-> desc[n].number, alt |-> desc[n].interfaces[i][j]] :
                      j \in { j \in 1..Len(desc[n].interfaces[i]) :
                                /\ desc[n].interfaces[i][j].cls = 255
                                /\ desc[n].interfaces[i][j].sub = 0
                                /\ desc[n].interfaces[i][j].pro = 0 } } :
                  i \in 1..Len(desc[n].interfaces) } :
          n \in 1..Len(desc) }

\* the addresses of the bulk endpoints of one direction in an alt-setting
BulkAddrs(a, dir) ==
  { a.eps[k].addr : k \in { k \in 1..Len(a.eps) : a.eps[k].dir = dir /\ a.eps[k].tt = "Bulk" } }

HasBulk(desc, dir) == \E v \in VendorAlts(desc) : BulkAddrs(v.alt, dir) # {}

\* the descriptors of the device the constructor selected
SelectedDesc == env.bus[SelectDevice(env.vidpid, env.bus).dev].desc

\* C19: with a device selected, construction fails with UsbEndpointsNotFound
\* iff no bulk IN or no bulk OUT endpoint exists on the (0xFF, 0, 0)
\* alt-settings, and with UsbEndpointsUnexpected iff both exist and the two
\* found sit in different (cfg, iface, setting); in both cases no call was
\* made on the handle; a constructed connection has in_addr and out_addr in
\* one (cfg, iface, setting), the one it claimed and selected.
C19_EndpointBinding ==
  (env.fixed /\ op = "new" /\ SelectDevice(env.vidpid, env.bus).kind = "Some") =>
    LET desc == SelectedDesc
        e1 == get_endpoint(desc, 255, 0, 0, "In", "Bulk")
        e2 == get_endpoint(desc, 255, 0, 0, "Out", "Bulk")
    IN  /\ result = Err("UsbEndpointsNotFound") <=>
             (~HasBulk(desc, "In") \/ ~HasBulk(desc, "Out"))
        /\ result = Err("UsbEndpointsUnexpected") <=>
             /\ HasBulk(desc, "In") /\ HasBulk(desc, "Out")
             /\ << e1.cfg, e1.iface, e1.setting >> # << e2.cfg, e2.iface, e2.setting >>
        /\ result.err \in { "UsbEndpointsNotFound", "UsbEndpointsUnexpected" } =>
             life = "ctor_err" /\ hlog = << >>
        /\ life = "open" =>
             \E v \in VendorAlts(desc) :
               /\ in_addr \in BulkAddrs(v.alt, "In")
               /\ out_addr \in BulkAddrs(v.alt, "Out")
               /\ iface = v.alt.ifn
               /\ hlog[Len(hlog)] = H("set_alternate_setting", v.alt.ifn, v.alt.setting, TRUE)
               /\ \E i \in 1..Len(hlog) :
                    hlog[i] = H("set_active_configuration", v.cfg, 0, hlog[i].ok)

C19_Witness ==
  /\ env.fixed /\ op = "new" /\ result = Err("UsbEndpointsUnexpected")
  /\ SelectedDesc = Desc_in_then_both /\ hlog = << >>

C19_WitnessNotFound ==
  /\ env.fixed /\ op = "new" /\ result = Err("UsbEndpointsNotFound")
  /\ SelectedDesc = Desc_no_in /\ hlog = << >>

C19_WitnessOpen ==
  /\ env.fixed /\ op = "new" /\ life = "open"
  /\ SelectedDesc = Desc_alt1 /\ in_addr = 132 /\ out_addr = 3

\* ------------------------------------------------------------------------
\* Claims on the frame
\* ------------------------------------------------------------------------
\* the four bytes of a 32-bit value, least significant first
Bytes4(v) == << v % 256, (v \div 256) % 256, (v \div 65536) % 256, (v \div 16777216) % 256 >>

\* the same for a u32 held in halves
Bytes4OfHalves(t) == << t.lo % 256, t.lo \div 256, t.hi % 256, t.hi \div 256 >>

\* C20: the frame a transaction hands to bulk OUT is exactly 32 bytes:
\* 0B D1 1F 43, the token (little-endian), cmd_id, cmd_size, two zero
\* bytes, transfer_len (little-endian), then the 16 bytes of args, with
\* nothing before, between or after.
C20_FrameLayout ==
  InCmd =>
    LET b == trace[1].data
    IN  /\ trace[1].op = "write_bulk" /\ trace[1].ep = out_addr
        /\ Len(b) = 32 /\ trace[1].req = 32
        /\ \A i \in 1..Len(b) : b[i] \in 0..255
        /\ SubSeq(b, 1, 4) = << 11, 209, 31, 67 >>
        /\ SubSeq(b, 5, 8) = Bytes4OfHalves(cur.token)
        /\ cur.token = U32(ncmd)
        /\ b[9] = cur.cmd_id
        /\ b[10] = cur.cmd_size
        /\ b[11] = 0 /\ b[12] = 0
        /\ SubSeq(b, 13, 16) = Bytes4(cur.transfer_len)
        /\ SubSeq(b, 17, 32) = cur.args

C20_Witness ==
  /\ InCmd /\ op = "flash_read"
  /\ SubSeq(trace[1].data, 5, 16) = << 2, 0, 0, 0, 132, 8, 0, 0, MaxLen, 0, 0, 0 >>
  /\ SubSeq(trace[1].data, 17, 24) = << 0, 0, 0, 16, MaxLen, 0, 0, 0 >>

\* ------------------------------------------------------------------------
\* Claims on the token counter at the end of its range (SpecLate)
\* ------------------------------------------------------------------------
\* C21: cmd_token is never reused: every attempt, the one made while the
\* counter holds 0xFFFFFFFF and the ones after it included, produces a frame,
\* and each frame's token is greater than the token of the frame before.
C21_TokenNeverReused ==
  /\ Len(sent) = ncmd
  /\ \A k \in 1..(Len(sent) - 1) : U32_lt(sent[k], sent[k + 1])

\* ------------------------------------------------------------------------
\* Claims on the ack
\* ------------------------------------------------------------------------
\* the transaction has returned and its last transfer is the ack
AckDone == InCmd /\ pc = "idle" /\ Kind(trace[Len(trace)]) = "ack"

\* the ack of the returned transaction timed out
AckTimedOut == AckDone /\ trace[Len(trace)].err /\ trace[Len(trace)].why = "Timeout"

\* C22 as claimed: a transaction whose ack timed out still returns its
\* result, the bytes read in the data phase or none, and no error.
C22_AckTimeoutIgnored ==
  AckTimedOut => result = Returned(op, Ok(BytesRead(Bulks(trace))))

\* C22, amended: a transaction whose ack timed out returns the transfer's
\* error, UsbWriteBulkFailure for an ack written on bulk OUT and
\* UsbReadBulkFailure for an ack read on bulk IN, and no bytes.
C22_AckTimeoutReturned ==
  AckTimedOut =>
    result = Err(IF trace[Len(trace)].op = "write_bulk"
                 THEN "UsbWriteBulkFailure" ELSE "UsbReadBulkFailure")

C22_Witness ==
  /\ AckTimedOut /\ op = "flash_read" /\ Len(trace) = 5
  /\ ~Failed(trace[3]) /\ trace[3].len = MaxLen
  /\ result = Err("UsbWriteBulkFailure")

\* C23: a frame write or a data transfer that moved fewer bytes than asked
\* ends the transaction with UsbWriteBulkMismatch or UsbReadBulkMismatch; an
\* ack that moved 0 bytes instead of 1 leaves the transaction successful.
C23_LengthCheckedButAck ==
  InCmd =>
    /\ \A i \in 1..Len(trace) :
         (Kind(trace[i]) \in { "frame", "data" } /\ ~trace[i].err
            /\ trace[i].len < trace[i].req) =>
           /\ i = Len(trace) /\ pc = "idle"
           /\ result = Err(IF trace[i].op = "write_bulk"
                           THEN "UsbWriteBulkMismatch" ELSE "UsbReadBulkMismatch")
    /\ (AckDone /\ ~trace[Len(trace)].err /\ trace[Len(trace)].len = 0) =>
         result = Returned(op, Ok(BytesRead(Bulks(trace))))

C23_Witness ==
  /\ AckDone /\ op = "flash_write" /\ Len(trace) = 5
  /\ trace[5].req = 1 /\ trace[5].len = 0 /\ ~trace[5].err
  /\ result = Ok(<< >>)

C23_WitnessShortFrame ==
  /\ InCmd /\ pc = "idle" /\ Len(trace) = 1 /\ trace[1].len = 31
  /\ result = Err("UsbWriteBulkMismatch")

\* ------------------------------------------------------------------------
\* Claims on recovery
\* ------------------------------------------------------------------------
\* the calls reset_interface makes on the handle
IsReset(e) == e.op \in { "clear_halt", "write_control" }

\* a transaction has returned an error
TransactionFailed == InCmd /\ pc = "idle" /\ ~result.ok

\* C24: a command transaction, failed or not, issues no clear_halt and no
\* reset control transfer (only a reset_interface call does); and the
\* command call that follows a failed transaction starts with its frame
\* write.
C24_NoAutomaticReset ==
  /\ [](InCmd => \A i \in 1..Len(trace) : ~IsReset(trace[i]))
  /\ [][(TransactionFailed /\ ncmd' = ncmd + 1) =>
          /\ Len(trace') = 1
          /\ trace'[1].op = "write_bulk" /\ trace'[1].ep = out_addr
          /\ Len(trace'[1].data) = 32]_vars

C24_Witness ==
  /\ TransactionFailed /\ Len(trace) = 3 /\ Failed(trace[3])
  /\ \A i \in 1..Len(trace) : ~IsReset(trace[i])
  /\ ncalls = 2 /\ ncmd = 2

\* ------------------------------------------------------------------------
\* Claims on endpoint discovery and the steps of construction (SpecCtor)
\* ------------------------------------------------------------------------
\* positions << configuration, interface, alt-setting >> of the alt-settings
\* with the class triple (0xFF, 0, 0)
VendorPositions(desc) ==
  UNION { UNION { { << n, i, j >> :
                      j \in { j \in 1..Len(desc[n].interfaces[i]) :
                                /\ desc[n].interfaces[i][j].cls = 255
                                /\ desc[n].interfaces[i][j].sub = 0
                                /\ desc[n].interfaces[i][j].pro = 0 } } :
                  i \in 1..Len(desc[n].interfaces) } :
          n \in 1..Len(desc) }

\* p comes no later than q in the walk
Before(p, q) ==
  \/ p[1] < q[1]
  \/ p[1] = q[1] /\ p[2] < q[2]
  \/ p[1] = q[1] /\ p[2] = q[2] /\ p[3] <= q[3]

\* the first alt-setting of the walk with the class triple (0xFF, 0, 0)
FirstVendorAlt(desc) ==
  LET p == CHOOSE p \in VendorPositions(desc) :
             \A q \in VendorPositions(desc) : Before(p, q)
  IN  desc[p[1]].interfaces[p[2]][p[3]]

\* the address of the first bulk endpoint of a direction in an alt-setting
FirstBulkAddr(a, dir) ==
  a.eps[CHOOSE k \in 1..Len(a.eps) :
          /\ a.eps[k].dir = dir /\ a.eps[k].tt = "Bulk"
          /\ \A m \in 1..(k - 1) : ~(a.eps[m].dir = dir /\ a.eps[m].tt = "Bulk")].addr

\* C25: both endpoints are bound from the first alt-setting of the walk whose
\* class triple is (0xFF, 0, 0): a constructed connection has that
\* alt-setting's first bulk IN and first bulk OUT addresses, and when that
\* alt-setting lacks one of them construction fails, a later matching
\* alt-setting notwithstanding.
C25_FirstMatchingAlt ==
  (/\ env.fixed /\ op = "new"
   /\ SelectDevice(env.vidpid, env.bus).kind = "Some"
   /\ VendorPositions(SelectedDesc) # {}) =>
    LET a == FirstVendorAlt(SelectedDesc)
        complete == BulkAddrs(a, "In") # {} /\ BulkAddrs(a, "Out") # {}
    IN  /\ ~complete => life = "ctor_err"
        /\ (complete /\ life = "open") =>
             /\ in_addr = FirstBulkAddr(a, "In")
             /\ out_addr = FirstBulkAddr(a, "Out")
             /\ iface = a.ifn

\* the positions of the calls named o in the log of the handle
Calls(o) == { i \in 1..Len(hlog) : hlog[i].op = o }

\* C26: construction calls detach_kernel_driver only when
\* kernel_driver_active returned true (false or an error: no detach, and
\* has_kernel_driver = false), calls it before claim_interface, and when the
\* detach fails returns UsbDetachKernelDriverFailure with no claim made.
C26_DetachOnlyIfActive ==
  (op = "new" /\ hlog # << >>) =>
    /\ hlog[1].op = "kernel_driver_active"
    /\ Calls("detach_kernel_driver") = IF hlog[1].ret = "true" THEN { 2 } ELSE { }
    /\ life = "open" => has_kernel_driver = (hlog[1].ret = "true")
    /\ \A i \in Calls("detach_kernel_driver"), j \in Calls("claim_interface") : i < j
    /\ \A i \in Calls("detach_kernel_driver") :
         ~hlog[i].ok =>
           /\ life = "ctor_err" /\ result = Err("UsbDetachKernelDriverFailure")
           /\ Calls("claim_interface") = { }

C26_Witness ==
  /\ op = "new" /\ result = Err("UsbDetachKernelDriverFailure")
  /\ Len(hlog) = 2 /\ hlog[1].ret = "true" /\ ~hlog[2].ok

C26_WitnessError ==
  /\ op = "new" /\ life = "open" /\ hlog[1].ret = "err"
  /\ ~has_kernel_driver /\ Calls("detach_kernel_driver") = { }

\* C27: what set_active_configuration returns changes nothing: it is
\* followed by claim_interface, then (the claim made) by
\* set_alternate_setting, and what construction returns is decided by these
\* two calls alone.
C27_ConfigFailureIgnored ==
  op = "new" =>
    \A i \in Calls("set_active_configuration") :
      /\ Len(hlog) > i
      /\ hlog[i + 1].op = "claim_interface"
      /\ ~hlog[i + 1].ok =>
           Len(hlog) = i + 1 /\ result = Err("UsbClaimInterfaceFailure")
      /\ hlog[i + 1].ok =>
           /\ Len(hlog) = i + 2
           /\ hlog[i + 2].op = "set_alternate_setting"
           /\ ~hlog[i + 2].ok => result = Err("UsbSetAltSettingFailure")
           /\ hlog[i + 2].ok => life = "open" /\ result = Ok(<< >>)

C27_Witness ==
  /\ op = "new" /\ life = "open" /\ result = Ok(<< >>)
  /\ \E i \in Calls("set_active_configuration") : ~hlog[i].ok
  /\ Calls("claim_interface") # { } /\ Calls("set_alternate_setting") # { }

\* ------------------------------------------------------------------------
\* Claims on termination
\* ------------------------------------------------------------------------
\* every phase of a transaction is one blocking call of the handle, which
\* returns: a transaction under way takes its next step
Fairness ==
  /\ WF_vars(cmd_status1)
  /\ WF_vars(cmd_data)
  /\ WF_vars(cmd_status2)
  /\ WF_vars(cmd_ack)

SpecFair == Init /\ [][Next]_vars /\ Fairness

\* the position of a phase in the transaction
Rank(p) ==
  CASE p = "status1" -> 1
    [] p = "data" -> 2
    [] p = "status2" -> 3
    [] p = "ack" -> 4
    [] OTHER -> 5

\* the number of entries of a log that belong to the phase k
CountKind(t, k) == Cardinality({ i \in 1..Len(t) : Kind(t[i]) = k })

\* C28: a command operation returns: its transaction performs at most one
\* frame write, two status polls, one data transfer and one ack, every step
\* moves to a later phase or returns, and the call under way does return.
C28_Terminates ==
  /\ [](InCmd =>
          /\ CountKind(trace, "frame") <= 1
          /\ CountKind(trace, "status") <= 2
          /\ CountKind(trace, "data") <= 1
          /\ CountKind(trace, "ack") <= 1
          /\ CountKind(trace, "other") = 0)
  /\ [][pc # "idle" => (Rank(pc') > Rank(pc) /\ Len(trace') = Len(trace) + 1)]_vars
  /\ (pc # "idle") ~> (pc = "idle")

C28_Witness ==
  /\ InCmd /\ pc = "idle" /\ op = "flash_write" /\ Len(trace) = 5
  /\ CountKind(trace, "status") = 2 /\ CountKind(trace, "data") = 1

====
